---- MODULE Spec2Model ----
(***************************************************************************)
(* Model of app/main.py of ai-habit-tracker-backend.                       *)
(*                                                                         *)
(*   1  from fastapi import FastAPI                                        *)
(*   3  app = FastAPI(title="AI Habit Tracker Backend")                    *)
(*   5  @app.get("/")                                                      *)
(*   6  def root():                                                        *)
(*   7      return {"status": "ok", "service": "AI Habit Tracker API",     *)
(*                  "docs": "/docs"}                                       *)
(*                                                                         *)
(* The module body runs statement by statement (pc).  Once it is loaded    *)
(* the ASGI application `app` answers requests; a request moves through    *)
(* received -> dispatched -> returned -> responded, and several requests   *)
(* are in flight at once because `root` is a plain `def` that the          *)
(* framework runs on a worker thread.  Python dictionaries are modelled as *)
(* insertion-ordered sequences of <<key, value>> pairs living in a heap,   *)
(* so that object identity (aliasing) is visible.                          *)
(*                                                                         *)
(* What the source delegates to FastAPI (default documentation routes,     *)
(* route matching with 404/405, JSON encoding of the returned dict, 500 on *)
(* an exception in the endpoint) is written down as FastAPI documents it.  *)
(***************************************************************************)
EXTENDS Integers, Sequences, FiniteSets, TLC

\* ------------------------------------------------------------------ bounds
MaxRequests == 2

ReqIds == 1..MaxRequests

\* ----------------------------------------------------------- dictionaries
\* dict[key] = value on an insertion-ordered dict: replace in place when the
\* key is present, append otherwise.
dict_keys(d) == {d[i][1] : i \in DOMAIN d}

dict_set(d, k, v) ==
    IF k \in dict_keys(d)
    THEN [i \in DOMAIN d |-> IF d[i][1] = k THEN <<k, v>> ELSE d[i]]
    ELSE Append(d, <<k, v>>)

\* ------------------------------------------------------ JSON de/encoding
\* The response body is the compact JSON text of the returned dict, written
\* as a sequence of tokens: { "k" : "v" , "k" : "v" }.
Quote(s) == <<"\"", s, "\"">>

RECURSIVE json_members(_)
json_members(d) ==
    IF Len(d) = 0 THEN <<>>
    ELSE Quote(d[1][1]) \o <<":">> \o Quote(d[1][2])
         \o (IF Len(d) = 1 THEN <<>> ELSE <<",">> \o json_members(Tail(d)))

json_dumps(d) == <<"{">> \o json_members(d) \o <<"}">>

\* Parsing of a body back into its members.  A member takes 7 tokens and a
\* separator follows every member but the last.
MemberCount(b) == (Len(b) - 1) \div 8

MemberAt(b, i) == 1 + 8 * (i - 1)

IsJSONObject(b) ==
    /\ Len(b) >= 2
    /\ b[1] = "{"
    /\ b[Len(b)] = "}"
    /\ \/ Len(b) = 2
       \/ /\ (Len(b) - 1) % 8 = 0
          /\ \A i \in 1..MemberCount(b) :
                LET o == MemberAt(b, i) IN
                /\ b[o + 1] = "\"" /\ b[o + 3] = "\"" /\ b[o + 4] = ":"
                /\ b[o + 5] = "\"" /\ b[o + 7] = "\""
                /\ (i < MemberCount(b) => b[o + 8] = ",")

json_keys(b) == {b[MemberAt(b, i) + 2] : i \in 1..MemberCount(b)}

json_get(b, k) ==
    LET i == CHOOSE j \in 1..MemberCount(b) : b[MemberAt(b, j) + 2] = k
    IN  b[MemberAt(b, i) + 6]

VARIABLES pc, globals, app, reqs, heap, log

vars == <<pc, globals, app, reqs, heap, log>>

\* ------------------------------------------------------------- framework
\* FastAPI(title=...) with every other argument left at its default: the
\* documentation endpoints are installed at the default paths.
FrameworkRoutes(openapi_url, docs_url, redoc_url) ==
    { [method |-> "GET", path |-> openapi_url, endpoint |-> "openapi"],
      [method |-> "GET", path |-> docs_url, endpoint |-> "swagger_ui_html"],
      [method |-> "GET", path |-> "/docs/oauth2-redirect",
       endpoint |-> "swagger_ui_redirect"],
      [method |-> "GET", path |-> redoc_url, endpoint |-> "redoc_html"] }

FastAPI(title) ==
    [ title           |-> title,
      openapi_url     |-> "/openapi.json",
      docs_url        |-> "/docs",
      redoc_url       |-> "/redoc",
      user_middleware |-> <<>>,
      routes          |-> FrameworkRoutes("/openapi.json", "/docs", "/redoc") ]

\* app.get(path)(endpoint): add the route (GET, path) -> endpoint.
app_get(a, path, endpoint) ==
    [a EXCEPT !.routes =
        @ \cup {[method |-> "GET", path |-> path, endpoint |-> endpoint]}]

NoApp ==
    [ title |-> "", openapi_url |-> "", docs_url |-> "", redoc_url |-> "",
      user_middleware |-> <<>>, routes |-> {} ]

\* ------------------------------------------------------------ the handler
\* Variants of line 7: an extra key, a call-count dependent value, another
\* documentation path.
rootExtraKey ==
    << <<"status", "ok">>,
       <<"service", "AI Habit Tracker API">>,
       <<"docs", "/docs">>,
       <<"version", "1">> >>

rootCounting ==
    << <<"status", IF Len(heap) = 0 THEN "ok" ELSE "busy">>,
       <<"service", "AI Habit Tracker API">>,
       <<"docs", "/docs">> >>

rootOtherDocs ==
    << <<"status", "ok">>,
       <<"service", "AI Habit Tracker API">>,
       <<"docs", "/documentation">> >>

\* Line 7: the dict display evaluated by root().
root ==
    << <<"status", "ok">>,
       <<"service", "AI Habit Tracker API">>,
       <<"docs", "/docs">> >>

\* --------------------------------------------------------------- requests
Plain(m, p) ==
    [ method |-> m, path |-> p, query |-> "", headers |-> "", body |-> "",
      wellformed |-> TRUE ]

Inputs ==
    { Plain("GET", "/"),
      [Plain("GET", "/") EXCEPT !.query = "verbose=1"],
      [Plain("GET", "/") EXCEPT !.headers = "X-Mode: debug"],
      [Plain("GET", "/") EXCEPT !.body = "{}"],
      [Plain("GET", "/") EXCEPT !.wellformed = FALSE],
      Plain("POST", "/"),
      Plain("GET", "/docs"),
      Plain("GET", "/habits") }

NoRequest ==
    [ stage |-> "idle", input |-> Plain("", ""), invoked |-> FALSE,
      outcome |-> "none", ref |-> 0, status |-> 0, body |-> <<>> ]

\* What a holder of a returned mapping may write into it.
Writes == { <<"status", "changed">>, <<"note", "x">> }

Init ==
    /\ pc = "start"
    /\ globals = {}
    /\ app = NoApp
    /\ reqs = [r \in ReqIds |-> NoRequest]
    /\ heap = <<>>
    /\ log = <<>>

\* ------------------------------------------------------- module execution
\* Line 1.
ImportFastAPI ==
    /\ pc = "start"
    /\ pc' = "imported"
    /\ globals' = globals \cup {"FastAPI"}
    /\ UNCHANGED <<app, reqs, heap, log>>

\* Line 3.
CreateApp ==
    /\ pc = "imported"
    /\ "FastAPI" \in globals
    /\ pc' = "app_created"
    /\ app' = FastAPI("AI Habit Tracker Backend")
    /\ globals' = globals \cup {"app"}
    /\ UNCHANGED <<reqs, heap, log>>

\* Variants of lines 5-7: a second path bound to root; no decorator.
DefineRootTwice ==
    /\ pc = "app_created"
    /\ "app" \in globals
    /\ pc' = "loaded"
    /\ app' = app_get(app_get(app, "/", "root"), "/habits", "root")
    /\ globals' = globals \cup {"root"}
    /\ UNCHANGED <<reqs, heap, log>>

DefineRootUndecorated ==
    /\ pc = "app_created"
    /\ "app" \in globals
    /\ pc' = "loaded"
    /\ app' = app
    /\ globals' = globals \cup {"root"}
    /\ UNCHANGED <<reqs, heap, log>>

\* Lines 5-7: the decorated definition of root.
DefineRoot ==
    /\ pc = "app_created"
    /\ "app" \in globals
    /\ pc' = "loaded"
    /\ app' = app_get(app, "/", "root")
    /\ globals' = globals \cup {"root"}
    /\ UNCHANGED <<reqs, heap, log>>

\* --------------------------------------------------------- request cycle
Finish(r, st, b) ==
    /\ reqs' = [reqs EXCEPT ![r].stage = "responded",
                            ![r].status = st,
                            ![r].body = b]
    /\ log' = Append(log, r)

\* The server hands a request to the loaded application.
Receive(r, in) ==
    /\ pc = "loaded"
    /\ reqs[r].stage = "idle"
    /\ reqs' = [reqs EXCEPT ![r].stage = "received", ![r].input = in]
    /\ UNCHANGED <<pc, globals, app, heap, log>>

ErrorBody(detail) == json_dumps(<< <<"detail", detail>> >>)

\* Routing: full match, path-only match (405) or no match (404); a request
\* that cannot be parsed never reaches the router (400).
Route(r) ==
    /\ reqs[r].stage = "received"
    /\ LET in   == reqs[r].input
           full == {rt \in app.routes :
                        rt.path = in.path /\ rt.method = in.method}
           part == {rt \in app.routes : rt.path = in.path}
       IN  IF ~in.wellformed
           THEN Finish(r, 400, <<"Invalid HTTP request received.">>)
           ELSE IF full # {}
           THEN LET rt == CHOOSE x \in full : TRUE IN
                IF rt.endpoint \in globals
                THEN /\ reqs' = [reqs EXCEPT ![r].stage = "dispatched"]
                     /\ log' = log
                ELSE Finish(r, 200, <<"<!DOCTYPE html>", rt.endpoint>>)
           ELSE IF part # {}
           THEN Finish(r, 405, ErrorBody("Method Not Allowed"))
           ELSE Finish(r, 404, ErrorBody("Not Found"))
    /\ UNCHANGED <<pc, globals, app, heap>>

\* Variants of the call of root(): one that reads the request, one that
\* registers a route, one that serializes callers on a lock held until the
\* response is written, one that raises, one that returns a shared dict.
CallRootEcho(r) ==
    /\ reqs[r].stage = "dispatched"
    /\ heap' = Append(heap, dict_set(root, "query", reqs[r].input.query))
    /\ reqs' = [reqs EXCEPT ![r].stage = "returned",
                            ![r].invoked = TRUE,
                            ![r].outcome = "return",
                            ![r].ref = Len(heap) + 1]
    /\ UNCHANGED <<pc, globals, app, log>>

CallRootRegistering(r) ==
    /\ reqs[r].stage = "dispatched"
    /\ heap' = Append(heap, root)
    /\ reqs' = [reqs EXCEPT ![r].stage = "returned",
                            ![r].invoked = TRUE,
                            ![r].outcome = "return",
                            ![r].ref = Len(heap) + 1]
    /\ app' = app_get(app, "/seen", "root")
    /\ UNCHANGED <<pc, globals, log>>

CallRootLocked(r) ==
    /\ reqs[r].stage = "dispatched"
    /\ \A o \in ReqIds : reqs[o].stage # "returned"
    /\ heap' = Append(heap, root)
    /\ reqs' = [reqs EXCEPT ![r].stage = "returned",
                            ![r].invoked = TRUE,
                            ![r].outcome = "return",
                            ![r].ref = Len(heap) + 1]
    /\ UNCHANGED <<pc, globals, app, log>>

CallRootRaising(r) ==
    /\ reqs[r].stage = "dispatched"
    /\ heap' = heap
    /\ reqs' = [reqs EXCEPT ![r].stage = "returned",
                            ![r].invoked = TRUE,
                            ![r].outcome = "raise"]
    /\ UNCHANGED <<pc, globals, app, log>>

CallRootShared(r) ==
    /\ reqs[r].stage = "dispatched"
    /\ heap' = IF Len(heap) = 0 THEN <<root>> ELSE heap
    /\ reqs' = [reqs EXCEPT ![r].stage = "returned",
                            ![r].invoked = TRUE,
                            ![r].outcome = "return",
                            ![r].ref = 1]
    /\ UNCHANGED <<pc, globals, app, log>>

\* The worker thread calls root(): a new dict is built and returned.
CallRoot(r) ==
    /\ reqs[r].stage = "dispatched"
    /\ heap' = Append(heap, root)
    /\ reqs' = [reqs EXCEPT ![r].stage = "returned",
                            ![r].invoked = TRUE,
                            ![r].outcome = "return",
                            ![r].ref = Len(heap) + 1]
    /\ UNCHANGED <<pc, globals, app, log>>

\* The returned value is serialized into the response.
Respond(r) ==
    /\ reqs[r].stage = "returned"
    /\ IF reqs[r].outcome = "return"
       THEN Finish(r, 200, json_dumps(heap[reqs[r].ref]))
       ELSE Finish(r, 500, <<"Internal Server Error">>)
    /\ UNCHANGED <<pc, globals, app, heap>>

\* A holder of the mapping returned for request r writes to it.
Mutate(r, w) ==
    /\ reqs[r].stage = "responded"
    /\ reqs[r].ref # 0
    /\ dict_set(heap[reqs[r].ref], w[1], w[2]) # heap[reqs[r].ref]
    /\ heap' = [heap EXCEPT ![reqs[r].ref] = dict_set(@, w[1], w[2])]
    /\ UNCHANGED <<pc, globals, app, reqs, log>>

Next ==
    \/ ImportFastAPI
    \/ CreateApp
    \/ DefineRoot
    \/ \E r \in ReqIds, in \in Inputs : Receive(r, in)
    \/ \E r \in ReqIds : Route(r)
    \/ \E r \in ReqIds : CallRoot(r)
    \/ \E r \in ReqIds : Respond(r)
    \/ \E r \in ReqIds, w \in Writes : Mutate(r, w)

Spec == Init /\ [][Next]_vars

\* ---------------------------------------------------------------- helpers
IsRootGet(in) == in.wellformed /\ in.method = "GET" /\ in.path = "/"

Responded(r) == reqs[r].stage = "responded"

ApplicationRoutes == {rt \in app.routes : rt.endpoint \in globals}

RootRoute == [method |-> "GET", path |-> "/", endpoint |-> "root"]

FixedBody ==
    << "{", "\"", "status", "\"", ":", "\"", "ok", "\"", ",",
            "\"", "service", "\"", ":", "\"", "AI Habit Tracker API", "\"", ",",
            "\"", "docs", "\"", ":", "\"", "/docs", "\"", "}" >>

InFlight(r) == reqs[r].stage \in {"dispatched", "returned"}

RootLog == SelectSeq(log, LAMBDA r : IsRootGet(reqs[r].input))

\* ------------------------------------------------------------------ C1
\* C1: every answered GET / has status 200 and a JSON object body with
\* exactly the keys status, service, docs and the values "ok",
\* "AI Habit Tracker API", "/docs".
C1_RootResponse ==
    \A r \in ReqIds :
        (Responded(r) /\ IsRootGet(reqs[r].input)) =>
            /\ reqs[r].status = 200
            /\ IsJSONObject(reqs[r].body)
            /\ MemberCount(reqs[r].body) = 3
            /\ json_keys(reqs[r].body) = {"status", "service", "docs"}
            /\ json_get(reqs[r].body, "status") = "ok"
            /\ json_get(reqs[r].body, "service") = "AI Habit Tracker API"
            /\ json_get(reqs[r].body, "docs") = "/docs"

C1_Witness ==
    \E r \in ReqIds :
        /\ Responded(r) /\ IsRootGet(reqs[r].input)
        /\ reqs[r].invoked /\ reqs[r].status = 200

\* ------------------------------------------------------------------ C2
\* C2: in the order in which responses are sent, every body answering
\* GET / equals the first such body, whatever was served before it.
C2_SameAsFirst ==
    \A i \in DOMAIN RootLog :
        reqs[RootLog[i]].body = reqs[RootLog[1]].body

C2_Witness ==
    /\ Len(RootLog) >= 2
    /\ \A i \in DOMAIN RootLog : reqs[RootLog[i]].invoked

\* ------------------------------------------------------------------ C3
\* C3: two GET / requests that differ in query, headers or body receive
\* the same status and the same body.
C3_InputIndependent ==
    \A r1, r2 \in ReqIds :
        ( /\ Responded(r1) /\ IsRootGet(reqs[r1].input)
          /\ Responded(r2) /\ IsRootGet(reqs[r2].input) ) =>
            /\ reqs[r1].status = reqs[r2].status
            /\ reqs[r1].body = reqs[r2].body

C3_Witness ==
    \E r1, r2 \in ReqIds :
        /\ Responded(r1) /\ IsRootGet(reqs[r1].input) /\ reqs[r1].invoked
        /\ Responded(r2) /\ IsRootGet(reqs[r2].input) /\ reqs[r2].invoked
        /\ reqs[r1].input.query # reqs[r2].input.query

\* ------------------------------------------------------------------ C4
\* C4: a step in which root is called and returns leaves the application
\* object, its routes and the module-level names as they were.
C4_HandlerFrame ==
    [][ (\E r \in ReqIds :
            reqs[r].stage = "dispatched" /\ reqs'[r].stage = "returned")
        => UNCHANGED <<app, globals, pc>> ]_vars

C4_Witness ==
    \E r \in ReqIds :
        /\ reqs[r].stage = "returned" /\ reqs[r].invoked
        /\ app = app_get(FastAPI("AI Habit Tracker Backend"), "/", "root")

\* ------------------------------------------------------------------ C5
\* C5: whatever the other requests are doing, a request in flight can take
\* its next step, and every answered GET / carries 200 and the fixed body.
C5_NoInterference ==
    \A r \in ReqIds :
        /\ reqs[r].stage = "received" => ENABLED Route(r)
        /\ reqs[r].stage = "dispatched" => ENABLED CallRoot(r)
        /\ reqs[r].stage = "returned" => ENABLED Respond(r)
        /\ (Responded(r) /\ IsRootGet(reqs[r].input)) =>
                reqs[r].status = 200 /\ reqs[r].body = FixedBody

C5_Witness ==
    \E r1, r2 \in ReqIds :
        /\ r1 # r2
        /\ reqs[r1].stage = "returned"
        /\ reqs[r2].stage = "dispatched"

\* ------------------------------------------------------------------ C6
\* C6: every call of root returns normally; a response on path / other
\* than 200 is a 405 or a 400 produced without calling root.
C6_NoHandlerError ==
    \A r \in ReqIds :
        /\ reqs[r].invoked => reqs[r].outcome = "return"
        /\ (Responded(r) /\ reqs[r].invoked) => reqs[r].status = 200
        /\ (Responded(r) /\ reqs[r].input.path = "/" /\ reqs[r].status # 200)
              => reqs[r].status \in {400, 405} /\ ~reqs[r].invoked

C6_Witness ==
    \E r1, r2 \in ReqIds :
        /\ Responded(r1) /\ reqs[r1].input.path = "/"
        /\ reqs[r1].status = 405 /\ ~reqs[r1].invoked
        /\ Responded(r2) /\ reqs[r2].invoked /\ reqs[r2].outcome = "return"

C8_FreshPayload ==
    /\ \A r1, r2 \in ReqIds :
          (r1 # r2 /\ reqs[r1].ref # 0 /\ reqs[r2].ref # 0)
              => reqs[r1].ref # reqs[r2].ref
    /\ \A r \in ReqIds :
          reqs[r].stage = "returned" => heap[reqs[r].ref] = root

C8_Witness ==
    \E r1, r2 \in ReqIds :
        /\ Responded(r1) /\ reqs[r1].ref # 0
        /\ heap[reqs[r1].ref] # root
        /\ reqs[r2].stage = "returned"

\* ------------------------------------------------------------------ C9
\* C9: the docs value of a GET / response is the application's
\* documentation path, a framework route and not an application route, and
\* a GET request to that path is answered 200 without calling root.
C9_DocsServed ==
    \A r \in ReqIds :
        (Responded(r) /\ IsRootGet(reqs[r].input)) =>
            LET d == json_get(reqs[r].body, "docs") IN
            /\ d = app.docs_url
            /\ \E rt \in app.routes \ ApplicationRoutes :
                  rt.method = "GET" /\ rt.path = d
            /\ \A rt \in ApplicationRoutes : rt.path # d
            /\ \A o \in ReqIds :
                  ( /\ Responded(o) /\ reqs[o].input.wellformed
                    /\ reqs[o].input.method = "GET"
                    /\ reqs[o].input.path = d )
                  => reqs[o].status = 200 /\ ~reqs[o].invoked

C9_Witness ==
    \E r, o \in ReqIds :
        /\ Responded(r) /\ IsRootGet(reqs[r].input) /\ reqs[r].status = 200
        /\ Responded(o) /\ reqs[o].input.path = "/docs"
        /\ reqs[o].status = 200

\* ----------------------------------------------------------------- C10
\* C10: the route is registered only on an existing application object, and
\* a request is in the system only when the route GET / is registered.
C10_InitOrder ==
    /\ (RootRoute \in app.routes \/ "root" \in globals) => "app" \in globals
    /\ "app" \in globals => app # NoApp
    /\ \A r \in ReqIds :
          reqs[r].stage # "idle" =>
              "app" \in globals /\ RootRoute \in app.routes

C10_Witness ==
    /\ pc = "loaded"
    /\ \E r \in ReqIds : Responded(r) /\ IsRootGet(reqs[r].input)

====
